---- MODULE Spec2Model ----
(***************************************************************************)
(* Slide-to-scene synchronisation of netless-app.                          *)
(*                                                                         *)
(*   packages/app-slide/src/utils/slide.ts                                 *)
(*       syncSceneWithSlide, SlideController (renderer listeners,          *)
(*       pollReadyState, isReady, jumpToPage, receiveSyncEvent, destroy),  *)
(*       mountSlideController                                              *)
(*   packages/app-embedded-page/src/index.ts                               *)
(*       EmbeddedPage.setup: setPage, sendMagixMessage, magixListener      *)
(*                                                                         *)
(* The renderer (@netless/slide) and the room (white-web-sdk) are          *)
(* libraries; they appear here as the environment of the controller.       *)
(***************************************************************************)
EXTENDS Integers, Sequences, FiniteSets, TLC

(***************************************************************************)
(* Bounds of the model.                                                    *)
(***************************************************************************)
\* the largest deck (slide.slideCount once the resource has loaded)
MaxSlideCount == 3
\* the number of renderSlide calls jumpToPage may issue in one run
MaxRenders == 3
\* the number of operations of a recorded run (SpecScenario)
MaxHistory == 6
\* the clients in the room
MaxObservers == 2
\* the magix events dispatched in one run
MaxMessages == 2

\* private targetingPage = -1
NoTarget == -1

\* slideState.currentSlideIndex == null, and "no render request pending"
Null == 0

Pages(n) == 1..n

\* the scene names "1".."n" in ascending order, as putScenes receives them
PageNames(n) == [i \in 1..n |-> i]

Range(s) == {s[i] : i \in 1..Len(s)}

\* decks the resource may turn out to have
Decks == 1..MaxSlideCount

\* pages a caller may ask for: below 1, inside the deck, above the deck
PageInputs == -1..(MaxSlideCount + 1)

\* scene entries found under baseScenePath when the app starts
SceneStates(n) ==
    {<<>>, PageNames(n), <<1>>, <<n + 1>>, PageNames(n) \o <<n + 1>>}

Consumers == {"c1", "c2"}

\* attrs.page and the active scene of an EmbeddedPage app before any setPage
NoPage == ""

\* const mainStoreId = "state"
mainStoreId == "state"

\* the ids a page may use for its stores
StoreIds == {mainStoreId, "s1", "s2"}

VARIABLES
    slideCount,         \* slide.slideCount: 0 until the resource has loaded
    deck,               \* the page count the resource has
    currentSlideIndex,  \* slide.slideState.currentSlideIndex, Null when unset
    pending,            \* the page the renderer was last asked for, Null when settled
    phase,              \* the renderer: "idle", "requested", "started"
    stepping,           \* the renderer is playing an animation step of the current slide
    targetingPage,      \* SlideController.targetingPage
    destroyed,          \* SlideController.destroy() has run
    timerPending,       \* a setTimeout(pollReadyState, 500) is outstanding
    resolveCount,       \* calls of resolveReady made so far
    readyValue,         \* what the ready promise resolved to, "pending" before
    observed,           \* what each consumer awaiting ready has seen
    renderCalls,        \* the pages jumpToPage passed to slide.renderSlide
    flightCalls,        \* how many of them went into the latest render request
    scenes,             \* the scene names under baseScenePath, in order
    scenePath,          \* the page of the active scene path, Null when elsewhere
    lastOp,             \* the operation that ran last, with its argument
    rendered,           \* the page that operation passed to slide.renderSlide, Null if none
    roomCalls,          \* the calls that operation made on the room, in order
    called,             \* the callbacks of the app that operation invoked, in order
    inTransition,       \* onTransitionStart was called and onTransitionEnd not yet since
    history,            \* the operations of a recorded run
    recording,          \* whether the run is recorded
    isWritable,         \* context.isWritable of each observer
    sent,               \* magix events dispatched so far
    network,            \* magix events on their way: the event and the observer it goes to
    delivered,          \* magix events the room has handed to an observer's listeners
    posted,             \* ReceiveMagixMessage posted to the page of each observer's app
    synced,             \* sync events fed into each observer's slide (syncReceive)
    pageScenes,         \* the scene names under the EmbeddedPage app's init scene path
    pageScenePath,      \* the name of the app's active scene there, NoPage when unset
    attrsPage,          \* attrs.page of the EmbeddedPage app, NoPage when unset
    store,              \* the store ids present in attrs.store
    storeListeners,     \* the local app's StateChanged listeners on each store id
    pageDestroyed,      \* the local EmbeddedPage app has got "destroy"
    viewerIsWritable,   \* Viewer.isWritable
    pageIndex,          \* Viewer.pageIndex, counted from 0
    pageNumberInput,    \* the value of Viewer.$pageNumberInput, a string
    isShowPreview,      \* Viewer.isShowPreview
    newPageIndex        \* the onNewPageIndex calls of the last user event

vars == <<slideCount, deck, currentSlideIndex, pending, phase, stepping, targetingPage,
          destroyed,
          timerPending, resolveCount, readyValue, observed, renderCalls, flightCalls,
          scenes, scenePath, lastOp, rendered, roomCalls, called, inTransition,
          history, recording,
          isWritable, sent, network, delivered, posted, synced,
          pageScenes, pageScenePath, attrsPage, store, storeListeners, pageDestroyed,
          viewerIsWritable, pageIndex, pageNumberInput, isShowPreview, newPageIndex>>

\* the slide controller with its renderer and room
slideVars == <<slideCount, deck, currentSlideIndex, pending, phase, stepping, targetingPage,
               destroyed,
               timerPending, resolveCount, readyValue, observed, renderCalls,
               flightCalls, scenes, scenePath>>
\* the magix channel between the observers
magixVars == <<isWritable, sent, network, delivered, posted, synced>>
\* the page state of the EmbeddedPage app, shared by the observers
pageVars == <<pageScenes, pageScenePath, attrsPage, store, storeListeners, pageDestroyed>>
\* the app store of the EmbeddedPage app and the local listeners on it
storeVars == <<store, storeListeners, pageDestroyed>>
viewerVars == <<viewerIsWritable, pageIndex, pageNumberInput, isShowPreview, newPageIndex>>
\* the log of the slide controller's operations
logVars == <<lastOp, rendered, roomCalls, called, inTransition, history, recording>>

rendererVars == <<currentSlideIndex, pending, phase>>
callVars == <<renderCalls, flightCalls>>
readyVars == <<timerPending, resolveCount, readyValue, observed>>
sceneVars == <<scenes, scenePath>>

Op(name, arg) == [op |-> name, arg |-> arg]

\* a call on the room, with its arguments below baseScenePath
Call(name, arg) == [call |-> name, arg |-> arg]

\* whether the app is between an onTransitionStart and the onTransitionEnd
\* that follows it, after the callbacks have run in order
RECURSIVE OpenAfter(_, _)
OpenAfter(callbacks, open) ==
    IF callbacks = <<>> THEN open
    ELSE OpenAfter(Tail(callbacks),
                   IF Head(callbacks) = "onTransitionStart" THEN TRUE
                   ELSE IF Head(callbacks) = "onTransitionEnd" THEN FALSE
                   ELSE open)

\* bookkeeping of a step: which operation ran, the page it asked the renderer
\* for, its calls on the room and the callbacks it invoked; a recorded run is
\* MaxHistory long
Log(op, page, calls, callbacks) ==
    /\ lastOp' = op
    /\ rendered' = page
    /\ roomCalls' = calls
    /\ called' = callbacks
    /\ inTransition' = OpenAfter(callbacks, inTransition)
    /\ recording' = recording
    /\ IF recording
       THEN /\ Len(history) < MaxHistory
            /\ history' = Append(history, op)
       ELSE history' = history

\* a step that neither calls the room nor invokes a callback
Record(op, page) == Log(op, page, <<>>, <<>>)

(***************************************************************************)
(* helpers.ts                                                              *)
(***************************************************************************)
clamp(value, min, max) ==
    IF value < min THEN min ELSE IF value > max THEN max ELSE value

(***************************************************************************)
(* The renderer: slide.renderSlide(page) is taken as a request that        *)
(* redirects a render that is under way (there is no cancel).  Whether the *)
(* renderer announces the redirected render with a renderStart of its own  *)
(* is its choice.  It plays an animation step of a slide between renders   *)
(* only, and takes up a render request when the step has ended.            *)
(***************************************************************************)
RenderSlide(page) ==
    /\ pending' = page
    /\ phase' \in (IF phase = "idle" THEN {"requested"} ELSE {phase, "requested"})
    /\ currentSlideIndex' = currentSlideIndex

(***************************************************************************)
(* SlideController                                                         *)
(***************************************************************************)
isReady == slideCount > 0

\* the constructor: the listeners are attached, the initial state is
\* restored or the initial page is requested, and pollReadyState runs once:
\* it resolves ready if the resource has loaded already (count > 0) and arms
\* the timer otherwise
Constructed(initialState, initialPage, count) ==
    /\ slideCount = count
    /\ IF initialState # Null
       THEN /\ currentSlideIndex = initialState
            /\ pending = Null
            /\ phase = "idle"
       ELSE /\ currentSlideIndex = Null
            /\ pending = initialPage
            /\ phase = "requested"
    /\ targetingPage = NoTarget
    /\ timerPending = ~(count > 0)
    /\ resolveCount = IF count > 0 THEN 1 ELSE 0
    /\ readyValue = IF count > 0 THEN "controller" ELSE "pending"
    /\ observed = [c \in Consumers |-> "pending"]
    /\ renderCalls = <<>>
    /\ flightCalls = 0
    /\ stepping = FALSE
    /\ destroyed = FALSE

\* jumpToPage without the clamp
jumpToPageUnclamped(page) ==
    IF ~isReady THEN Null
    ELSE IF page = targetingPage THEN Null ELSE page

\* jumpToPage without the comparison with targetingPage
jumpToPageAlways(page) ==
    IF ~isReady THEN Null ELSE clamp(page, 1, slideCount)

\* jumpToPage that waits for renderEnd before it calls renderSlide again
jumpToPageWhenIdle(page) ==
    IF ~isReady \/ phase # "idle" THEN Null
    ELSE LET p == clamp(page, 1, slideCount)
         IN  IF p = targetingPage THEN Null ELSE p

\* jumpToPage guarded by the ready promise instead of isReady()
jumpToPageAfterResolve(page) ==
    IF resolveCount = 0 THEN Null
    ELSE LET p == clamp(page, 1, slideCount)
         IN  IF p = targetingPage THEN Null ELSE p

\* jumpToPage without the isReady() guard
jumpToPageUnguarded(page) ==
    LET p == clamp(page, 1, slideCount)
    IN  IF p = targetingPage THEN Null ELSE p

\* jumpToPage that compares with the page on show instead of targetingPage
jumpToPageCurrent(page) ==
    IF ~isReady THEN Null
    ELSE LET p == clamp(page, 1, slideCount)
         IN  IF p = currentSlideIndex THEN Null ELSE p

\* the page jumpToPage(page) passes to slide.renderSlide, Null when it returns early
jumpToPage(page) ==
    IF ~isReady THEN Null
    ELSE LET p == clamp(page, 1, slideCount)
         IN  IF p = targetingPage THEN Null ELSE p

\* jumpToPage that, while a render is under way, records the target only
JumpToPageRecordOnly(page) ==
    /\ ~destroyed
    /\ Len(renderCalls) < MaxRenders
    /\ LET p == jumpToPage(page)
       IN  IF p = Null
           THEN /\ UNCHANGED <<targetingPage, callVars, rendererVars>>
                /\ Record(Op("jumpToPage", page), Null)
           ELSE IF phase # "idle"
           THEN /\ targetingPage' = p
                /\ UNCHANGED <<callVars, rendererVars>>
                /\ Record(Op("jumpToPage", page), Null)
           ELSE /\ targetingPage' = p
                /\ renderCalls' = Append(renderCalls, p)
                /\ flightCalls' = 1
                /\ RenderSlide(p)
                /\ Record(Op("jumpToPage", page), p)
    /\ UNCHANGED <<slideCount, deck, readyVars, sceneVars, magixVars, pageVars, viewerVars, stepping,
                   destroyed>>

\* jumpToPage that remembers the first target only
JumpToPageKeepTarget(page) ==
    /\ ~destroyed
    /\ Len(renderCalls) < MaxRenders
    /\ LET p == jumpToPage(page)
       IN  /\ IF p = Null
              THEN UNCHANGED <<targetingPage, callVars, rendererVars>>
              ELSE /\ targetingPage' = IF targetingPage = NoTarget THEN p ELSE targetingPage
                   /\ renderCalls' = Append(renderCalls, p)
                   /\ flightCalls' = IF targetingPage # NoTarget /\ phase # "idle"
                                     THEN flightCalls + 1 ELSE 1
                   /\ RenderSlide(p)
           /\ Record(Op("jumpToPage", page), p)
    /\ UNCHANGED <<slideCount, deck, readyVars, sceneVars, magixVars, pageVars, viewerVars, stepping,
                   destroyed>>

JumpToPage(page) ==
    /\ ~destroyed
    /\ Len(renderCalls) < MaxRenders
    /\ LET p == jumpToPage(page)
       IN  /\ IF p = Null
              THEN UNCHANGED <<targetingPage, callVars, rendererVars>>
              ELSE /\ targetingPage' = p
                   /\ renderCalls' = Append(renderCalls, p)
                   /\ flightCalls' = IF targetingPage # NoTarget /\ phase # "idle"
                                     THEN flightCalls + 1 ELSE 1
                   /\ RenderSlide(p)
           /\ Record(Op("jumpToPage", page), p)
    /\ UNCHANGED <<slideCount, deck, readyVars, sceneVars, magixVars, pageVars, viewerVars, stepping,
                   destroyed>>

\* pollReadyState without the else: the timer is armed again after resolving
PollReadyStateRearm ==
    /\ timerPending
    /\ IF isReady
       THEN /\ resolveCount' = resolveCount + 1
            /\ readyValue' = IF readyValue = "pending" THEN "controller" ELSE readyValue
       ELSE UNCHANGED <<resolveCount, readyValue>>
    /\ timerPending' = TRUE
    /\ Record(Op("pollReadyState", 0), Null)
    /\ UNCHANGED <<slideCount, deck, rendererVars, targetingPage, observed,
                   callVars, sceneVars, magixVars, pageVars, viewerVars, stepping,
                   destroyed>>

\* pollReadyState that gives up after one look: it never arms the timer again
PollReadyStateOnce ==
    /\ timerPending
    /\ IF isReady
       THEN /\ resolveCount' = resolveCount + 1
            /\ readyValue' = IF readyValue = "pending" THEN "controller" ELSE readyValue
       ELSE UNCHANGED <<resolveCount, readyValue>>
    /\ timerPending' = FALSE
    /\ Record(Op("pollReadyState", 0), Null)
    /\ UNCHANGED <<slideCount, deck, rendererVars, targetingPage, observed,
                   callVars, sceneVars, magixVars, pageVars, viewerVars, stepping,
                   destroyed>>

\* private pollReadyState, run by the timer
PollReadyState ==
    /\ timerPending
    /\ IF isReady
       THEN /\ resolveCount' = resolveCount + 1
            /\ readyValue' = IF readyValue = "pending" THEN "controller" ELSE readyValue
            /\ timerPending' = FALSE
       ELSE /\ timerPending' = TRUE
            /\ UNCHANGED <<resolveCount, readyValue>>
    /\ Record(Op("pollReadyState", 0), Null)
    /\ UNCHANGED <<slideCount, deck, rendererVars, targetingPage, observed,
                   callVars, sceneVars, magixVars, pageVars, viewerVars, stepping,
                   destroyed>>

\* a consumer of `ready` (mountSlideController returns the promise) gets its value
AwaitReady(c) ==
    /\ readyValue # "pending"
    /\ observed[c] = "pending"
    /\ observed' = [observed EXCEPT ![c] = readyValue]
    /\ Record(Op("awaitReady", 0), Null)
    /\ UNCHANGED <<slideCount, deck, rendererVars, targetingPage, timerPending,
                   resolveCount, readyValue, callVars, sceneVars, magixVars, pageVars, viewerVars, stepping,
                   destroyed>>

\* destroy(): slide.destroy(), which releases the renderer with the
\* listeners added to it
Destroy ==
    /\ ~destroyed
    /\ destroyed' = TRUE
    /\ Record(Op("destroy", 0), Null)
    /\ UNCHANGED <<slideCount, deck, rendererVars, stepping, targetingPage, readyVars,
                   callVars, sceneVars, magixVars, pageVars, viewerVars>>

(***************************************************************************)
(* Renderer events.  A destroyed renderer emits none, and the app calls    *)
(* neither jumpToPage nor the reconciler on a destroyed controller.        *)
(***************************************************************************)
\* the resource has loaded: slideCount becomes positive
SlideLoaded ==
    /\ ~destroyed
    /\ slideCount = 0
    /\ slideCount' = deck
    /\ Record(Op("loaded", 0), Null)
    /\ UNCHANGED <<deck, rendererVars, targetingPage, readyVars, callVars,
                   sceneVars, magixVars, pageVars, viewerVars, stepping,
                   destroyed>>

\* SLIDE_EVENTS.renderStart -> onTransitionStart
RenderStart ==
    /\ isReady
    /\ ~destroyed
    /\ ~stepping
    /\ phase = "requested"
    /\ phase' = "started"
    /\ Log(Op("renderStart", 0), Null, <<>>, <<"onTransitionStart">>)
    /\ UNCHANGED <<slideCount, deck, currentSlideIndex, pending, targetingPage,
                   readyVars, callVars, sceneVars, magixVars, pageVars, viewerVars, stepping,
                   destroyed>>

\* SLIDE_EVENTS.slideChange -> onPageChanged, SLIDE_EVENTS.renderEnd -> onTransitionEnd
RenderEnd ==
    /\ ~destroyed
    /\ ~stepping
    /\ phase = "started"
    /\ phase' = "idle"
    /\ currentSlideIndex' = pending
    /\ pending' = Null
    /\ Log(Op("renderEnd", 0), Null, <<>>, <<"onPageChanged", "onTransitionEnd">>)
    /\ UNCHANGED <<slideCount, deck, targetingPage, readyVars, callVars,
                   sceneVars, magixVars, pageVars, viewerVars, stepping,
                   destroyed>>

\* a renderError handler that only warns
RenderErrorSilent ==
    /\ ~destroyed
    /\ ~stepping
    /\ phase # "idle"
    /\ phase' = "idle"
    /\ pending' = Null
    /\ currentSlideIndex' = currentSlideIndex
    /\ Log(Op("renderError", 0), Null, <<>>, <<>>)
    /\ UNCHANGED <<slideCount, deck, targetingPage, readyVars, callVars,
                   sceneVars, magixVars, pageVars, viewerVars, stepping,
                   destroyed>>

\* SLIDE_EVENTS.renderError -> console.warn, onTransitionEnd
RenderError ==
    /\ ~destroyed
    /\ ~stepping
    /\ phase # "idle"
    /\ phase' = "idle"
    /\ pending' = Null
    /\ currentSlideIndex' = currentSlideIndex
    /\ Log(Op("renderError", 0), Null, <<>>, <<"onTransitionEnd">>)
    /\ UNCHANGED <<slideCount, deck, targetingPage, readyVars, callVars,
                   sceneVars, magixVars, pageVars, viewerVars, stepping,
                   destroyed>>

\* SLIDE_EVENTS.mainSeqStepStart -> onTransitionStart: an animation step of
\* the slide on show begins
MainSeqStepStart ==
    /\ isReady
    /\ phase = "idle"
    /\ currentSlideIndex # Null
    /\ ~destroyed
    /\ ~stepping
    /\ stepping' = TRUE
    /\ Log(Op("mainSeqStepStart", 0), Null, <<>>, <<"onTransitionStart">>)
    /\ UNCHANGED <<slideCount, deck, rendererVars, targetingPage, readyVars,
                   callVars, sceneVars, magixVars, pageVars, viewerVars, destroyed>>

\* SLIDE_EVENTS.mainSeqStepEnd -> onTransitionEnd
MainSeqStepEnd ==
    /\ stepping
    /\ stepping' = FALSE
    /\ Log(Op("mainSeqStepEnd", 0), Null, <<>>, <<"onTransitionEnd">>)
    /\ UNCHANGED <<slideCount, deck, rendererVars, targetingPage, readyVars,
                   callVars, sceneVars, magixVars, pageVars, viewerVars, destroyed>>

\* receiveSyncEvent(event): slide.emit(SLIDE_EVENTS.syncReceive, event).  The
\* renderer follows the peer to another page of the deck and reports it with
\* slideChange -> onPageChanged.
ReceiveSyncEvent ==
    /\ ~destroyed
    /\ ~stepping
    /\ isReady
    /\ phase = "idle"
    /\ currentSlideIndex' \in Pages(slideCount) \ {currentSlideIndex}
    /\ UNCHANGED <<pending, phase>>
    /\ Log(Op("receiveSyncEvent", 0), Null, <<>>, <<"onPageChanged">>)
    /\ UNCHANGED <<slideCount, deck, targetingPage, readyVars, callVars,
                   sceneVars, magixVars, pageVars, viewerVars, stepping, destroyed>>

(***************************************************************************)
(* Room: the scenes under baseScenePath                                    *)
(***************************************************************************)
scenePathType(entries, page) == IF page \in Range(entries) THEN "page" ELSE "none"

removeScenes(entries) == <<>>

putScenes(entries, names) == entries \o names

\* the entries and the active scene path after the calls have run in order
RECURSIVE RoomAfter(_, _, _)
RoomAfter(calls, entries, path) ==
    IF calls = <<>> THEN <<entries, path>>
    ELSE LET c == Head(calls)
         IN  IF c.call = "removeScenes"
             THEN RoomAfter(Tail(calls), removeScenes(entries), path)
             ELSE IF c.call = "putScenes"
             THEN RoomAfter(Tail(calls), putScenes(entries, c.arg), path)
             ELSE IF c.call = "setScenePath"
             THEN RoomAfter(Tail(calls), entries, c.arg[1])
             ELSE RoomAfter(Tail(calls), entries, path)

\* the calls on the room that recreate the scenes "1".."count"
RecreateScenes(count) ==
    <<Call("removeScenes", <<>>), Call("putScenes", PageNames(count))>>

\* syncSceneWithSlide that creates the missing entry only
syncSceneWithSlidePatch(entries, path) ==
    LET page == currentSlideIndex
        calls == IF page = Null THEN <<>>
                 ELSE IF scenePathType(entries, page) = "none"
                      THEN <<Call("putScenes", <<page>>), Call("setScenePath", <<page>>)>>
                      ELSE <<Call("setScenePath", <<page>>)>>
        after == RoomAfter(calls, entries, path)
    IN  <<after[1], after[2], calls>>

\* syncSceneWithSlide that adds the full list to the entries it finds
syncSceneWithSlideKeepStale(entries, path) ==
    LET page == currentSlideIndex
        calls == IF page = Null THEN <<>>
                 ELSE IF scenePathType(entries, page) = "none"
                      THEN <<Call("putScenes", PageNames(slideCount)),
                             Call("setScenePath", <<page>>)>>
                      ELSE <<Call("setScenePath", <<page>>)>>
        after == RoomAfter(calls, entries, path)
    IN  <<after[1], after[2], calls>>

\* syncSceneWithSlide that recreates the scenes whether the entry exists or not
syncSceneWithSlideRecreate(entries, path) ==
    LET page == currentSlideIndex
        calls == IF page = Null THEN <<>>
                 ELSE RecreateScenes(slideCount) \o <<Call("setScenePath", <<page>>)>>
        after == RoomAfter(calls, entries, path)
    IN  <<after[1], after[2], calls>>

\* syncSceneWithSlide without the early return on a missing currentSlideIndex
syncSceneWithSlideAnyPage(entries, path) ==
    LET page == currentSlideIndex
        calls == IF scenePathType(entries, page) = "none"
                 THEN RecreateScenes(slideCount) \o <<Call("setScenePath", <<page>>)>>
                 ELSE <<Call("setScenePath", <<page>>)>>
        after == RoomAfter(calls, entries, path)
    IN  <<after[1], after[2], calls>>

\* syncSceneWithSlide(room, slide, baseScenePath): the scenes and the active
\* scene path afterwards, and the calls it made on the room
syncSceneWithSlide(entries, path) ==
    LET page == currentSlideIndex
        calls == IF page = Null THEN <<>>
                 ELSE IF scenePathType(entries, page) = "none"
                      THEN RecreateScenes(slideCount) \o <<Call("setScenePath", <<page>>)>>
                      ELSE <<Call("setScenePath", <<page>>)>>
        after == RoomAfter(calls, entries, path)
    IN  <<after[1], after[2], calls>>

\* the step is recorded with the number of entries it found under baseScenePath
SyncSceneWithSlide ==
    /\ ~destroyed
    /\ scenes' = syncSceneWithSlide(scenes, scenePath)[1]
    /\ scenePath' = syncSceneWithSlide(scenes, scenePath)[2]
    /\ Log(Op("syncSceneWithSlide", Len(scenes)), Null,
           syncSceneWithSlide(scenes, scenePath)[3], <<>>)
    /\ UNCHANGED <<slideCount, deck, rendererVars, targetingPage, readyVars,
                   callVars, magixVars, pageVars, viewerVars, stepping,
                   destroyed>>

(***************************************************************************)
(* Magix events.  Every observer runs the same apps: an EmbeddedPage       *)
(* instance and a slide.  room.dispatchMagixEvent hands the event to       *)
(* every observer of the room, its author included; each observer's        *)
(* displayer calls the listeners added under the event's name.             *)
(***************************************************************************)
Observers == 1..MaxObservers

\* the observer whose app instances the model follows
LocalObserver == 1

PageApps == {"page-1"}

SlideApps == {"slide-1"}

\* one channel name for every app instance
magixEventChannelShared(appId) == <<"channel", "">>

\* const magixEventChannel = `channel-${context.appId}`
magixEventChannel(appId) == <<"channel", appId>>

\* the event as the room hands it out; app is the instance that dispatched it
MagixEvent(id, appId, author) ==
    [id |-> id, event |-> magixEventChannel(appId), authorId |-> author,
     app |-> appId]

\* room.dispatchMagixEvent(channel, message) by observer o
DispatchMagixEvent(o, appId) ==
    /\ sent' = sent + 1
    /\ network' = network \cup
           {[e |-> MagixEvent(sent + 1, appId, o), to |-> t] : t \in Observers}

\* sendMagixMessage(message), on "SendMagixMessage" from the page
SendMagixMessage(o, appId) ==
    /\ sent < MaxMessages
    /\ o = LocalObserver => ~pageDestroyed
    /\ IF isWritable[o]
       THEN DispatchMagixEvent(o, appId)
       ELSE UNCHANGED <<sent, network>>
    /\ UNCHANGED <<isWritable, delivered, posted, synced, slideVars, logVars, pageVars, viewerVars>>

\* SLIDE_EVENTS.syncDispatch -> onDispatchSyncEvent: the slide app broadcasts it
DispatchSyncEvent(o, appId) ==
    /\ sent < MaxMessages
    /\ DispatchMagixEvent(o, appId)
    /\ UNCHANGED <<isWritable, delivered, posted, synced, slideVars, logVars, pageVars, viewerVars>>

\* magixListener without the comparison of the author with the observer
magixListenerEcho(o, appId, e) == e.event = magixEventChannel(appId)

\* magixListener(e) of observer o's instance appId: whether it posts
\* ReceiveMagixMessage to its page
magixListener(o, appId, e) ==
    e.event = magixEventChannel(appId) /\ e.authorId # o

\* the slide app's listener: whether it calls receiveSyncEvent
syncListener(o, appId, e) ==
    e.event = magixEventChannel(appId) /\ e.authorId # o

\* SlideController.receiveSyncEvent(event): slide.emit(syncReceive, event)
receiveSyncEvent(received, e) == received \cup {e}

\* the displayer of d.to gets the event and calls the listeners added for it
DeliverMagixEvent(d) ==
    /\ d \in network
    /\ network' = network \ {d}
    /\ delivered' = delivered \cup {d}
    /\ posted' = [o \in Observers |-> [a \in PageApps |->
           IF o = d.to /\ d.e.event = magixEventChannel(a) /\ magixListener(o, a, d.e)
           THEN posted[o][a] \cup {d.e}
           ELSE posted[o][a]]]
    /\ synced' = [o \in Observers |-> [a \in SlideApps |->
           IF o = d.to /\ d.e.event = magixEventChannel(a) /\ syncListener(o, a, d.e)
           THEN receiveSyncEvent(synced[o][a], d.e)
           ELSE synced[o][a]]]
    /\ UNCHANGED <<isWritable, sent, slideVars, logVars, pageVars, viewerVars>>

\* "writableChange": the observer gains or loses write permission
WritableChange(o) ==
    /\ isWritable' = [isWritable EXCEPT ![o] = ~isWritable[o]]
    /\ UNCHANGED <<sent, network, delivered, posted, synced, slideVars, logVars, pageVars, viewerVars>>

MagixInit ==
    /\ sent = 0
    /\ network = {}
    /\ delivered = {}
    /\ posted = [o \in Observers |-> [a \in PageApps |-> {}]]
    /\ synced = [o \in Observers |-> [a \in SlideApps |-> {}]]

\* the EmbeddedPage app before its page has asked for a scene
PageInit ==
    /\ pageScenes = <<>>
    /\ pageScenePath = NoPage
    /\ attrsPage = NoPage
    /\ store = {mainStoreId}
    /\ storeListeners = [id \in StoreIds |-> IF id = mainStoreId THEN 1 ELSE 0]
    /\ pageDestroyed = FALSE

(***************************************************************************)
(* Page state of the EmbeddedPage app.  Its page asks for a scene with a   *)
(* "SetPage" message; the scenes under the init scene path, the active     *)
(* scene and attrs.page are shared by the observers.  The app runs in a    *)
(* live room with an init scene path.                                      *)
(***************************************************************************)
\* scene names a page may ask for
SceneNames == {"a", "b"}

\* payloads of "SetPage": a scene name, or something that is not a string
PagePayloads ==
    {[type |-> "string", value |-> n] : n \in SceneNames}
        \cup {[type |-> "number", value |-> "1"]}

\* attrs.page after the calls have run in order
RECURSIVE AttrAfter(_, _)
AttrAfter(calls, attr) ==
    IF calls = <<>> THEN attr
    ELSE AttrAfter(Tail(calls),
                   IF Head(calls).call = "updateAttributes"
                   THEN Head(calls).arg[1] ELSE attr)

\* setPage that does not create the scene it switches to
setPageNoCreate(o, page, entries) ==
    IF page.type = "string" /\ isWritable[o]
    THEN <<Call("setScenePath", <<page.value>>),
           Call("updateAttributes", <<page.value>>)>>
    ELSE <<>>

\* setPage(page) at observer o: its calls on the room and the app context
setPage(o, page, entries) ==
    IF page.type = "string" /\ isWritable[o]
    THEN (IF scenePathType(entries, page.value) = "none"
          THEN <<Call("putScenes", <<page.value>>)>>
          ELSE <<>>)
         \o <<Call("setScenePath", <<page.value>>),
              Call("updateAttributes", <<page.value>>)>>
    ELSE <<>>

\* the step is recorded with the observer whose page sent the message
SetPage(o, page) ==
    LET calls == setPage(o, page, pageScenes)
    IN  /\ o = LocalObserver => ~pageDestroyed
        /\ pageScenes' = RoomAfter(calls, pageScenes, pageScenePath)[1]
        /\ pageScenePath' = RoomAfter(calls, pageScenes, pageScenePath)[2]
        /\ attrsPage' = AttrAfter(calls, attrsPage)
        /\ Log(Op("setPage", o), Null, calls, <<>>)
        /\ UNCHANGED <<slideVars, magixVars, storeVars, viewerVars>>

(***************************************************************************)
(* App store of the EmbeddedPage app.  attrs.store maps store ids to       *)
(* states, which are objects; it is shared, and a change of it reaches the *)
(* local app as a list of actions {key, kind} for its listener on          *)
(* attrs.store.  The model follows the store ids and the listeners of the  *)
(* local app; a message changes one store at a time.                       *)
(***************************************************************************)
\* payloads of "SetStore" and "SetState": a store id with a state, which is
\* an object or undefined, or something that is not an object
StorePayloads ==
    {[type |-> "object", id |-> i, state |-> st] :
         i \in StoreIds, st \in {"object", "undefined"}}
        \cup {[type |-> "other", id |-> "", state |-> "undefined"]}

\* setStore(payload) at observer o: its calls on the app context, made
\* whether or not o may write
setStore(o, payload) ==
    IF payload.type = "object" /\ payload.id # mainStoreId
    THEN <<Call("updateAttributes", <<"store", payload.id, payload.state>>)>>
    ELSE <<>>

\* setState(payload) at observer o: its calls on the app context
setState(o, payload) ==
    IF payload.type = "object" /\ payload.id # "" /\ payload.state = "object"
           /\ isWritable[o]
    THEN <<Call("updateAttributes", <<"store", payload.id, "key">>)>>
    ELSE <<>>

\* the store ids after context.updateAttributes(["store", id], state)
StoreAfter(calls, st) ==
    IF calls = <<>> THEN st
    ELSE IF calls[1].arg[3] = "undefined" THEN st \ {calls[1].arg[2]}
    ELSE IF calls[1].arg[3] = "object" THEN st \cup {calls[1].arg[2]}
    ELSE st

\* the actions {key, kind} by which the change from st to after is reported:
\* kind 2 for a store that has gone
StoreActions(calls, st, after) ==
    IF calls = <<>> \/ calls[1].arg[3] = "key" THEN <<>>
    ELSE LET key == calls[1].arg[2]
         IN  IF key \in st /\ key \notin after THEN <<[key |-> key, kind |-> 2]>>
             ELSE IF key \notin st /\ key \in after THEN <<[key |-> key, kind |-> 0]>>
             ELSE IF key \in st THEN <<[key |-> key, kind |-> 1]>>
             ELSE <<>>

\* safeListenPropsUpdated(getProps, callback): the listeners it attaches,
\* one if the props are an object
safeListenPropsUpdated(isObj) == IF isObj THEN 1 ELSE 0

\* listenStateUpdated(storeId): storeSideEffect.add(..., storeId) releases the
\* side effect kept under storeId and keeps the new one
listenStateUpdated(ls, st, storeId) ==
    [ls EXCEPT ![storeId] = safeListenPropsUpdated(storeId \in st)]

\* the listener on attrs.store that keeps the listeners of removed stores
storeChangedKeep(ls, st, actions) ==
    IF actions = <<>> THEN ls
    ELSE listenStateUpdated(ls, st \cup {actions[1].key}, actions[1].key)

\* the listener on attrs.store: storeSideEffect.flush(key) for kind 2,
\* listenStateUpdated(key) otherwise
storeChanged(ls, st, actions) ==
    IF actions = <<>> THEN ls
    ELSE IF actions[1].kind = 2
         THEN [ls EXCEPT ![actions[1].key] = 0]
         ELSE listenStateUpdated(ls, st, actions[1].key)

\* the calls have run: the store and, unless the local app has been destroyed,
\* its listeners
StoreUpdated(calls) ==
    /\ store' = StoreAfter(calls, store)
    /\ storeListeners' =
           IF pageDestroyed THEN storeListeners
           ELSE storeChanged(storeListeners, StoreAfter(calls, store),
                             StoreActions(calls, store, StoreAfter(calls, store)))
    /\ pageDestroyed' = pageDestroyed

\* "SetStore" from the page of observer o
SetStore(o, payload) ==
    /\ o = LocalObserver => ~pageDestroyed
    /\ StoreUpdated(setStore(o, payload))
    /\ Log(Op("setStore", o), Null, setStore(o, payload), <<>>)
    /\ UNCHANGED <<slideVars, magixVars, pageScenes, pageScenePath, attrsPage, viewerVars>>

\* "SetState" from the page of observer o
SetState(o, payload) ==
    /\ o = LocalObserver => ~pageDestroyed
    /\ StoreUpdated(setState(o, payload))
    /\ Log(Op("setState", o), Null, setState(o, payload), <<>>)
    /\ UNCHANGED <<slideVars, magixVars, pageScenes, pageScenePath, attrsPage, viewerVars>>

\* "destroy" at the local app: sideEffectManager.flushAll() releases the
\* message hub and the store side effect with storeSideEffect.flushAll()
DestroyPage ==
    /\ ~pageDestroyed
    /\ pageDestroyed' = TRUE
    /\ storeListeners' = [id \in StoreIds |-> 0]
    /\ Log(Op("destroyPage", LocalObserver), Null, <<>>, <<>>)
    /\ UNCHANGED <<slideVars, magixVars, pageScenes, pageScenePath, attrsPage, store,
                   viewerVars>>

(***************************************************************************)
(* The docs Viewer.  Its listeners run on the user's events; a navigation  *)
(* request is a call of onNewPageIndex.  The viewer shows ViewerPages      *)
(* pages.                                                                  *)
(***************************************************************************)
ViewerPages == MaxSlideCount

Digits == <<"0", "1", "2", "3", "4", "5", "6", "7", "8", "9">>

\* String(n) and Number(text) of the script language, on one digit
String(n) == Digits[n + 1]
Number(text) == CHOOSE n \in 0..9 : Digits[n + 1] = text

\* what a page number input can hold: nothing or a number
InputTexts == {""} \cup {String(n) : n \in 0..(ViewerPages + 1)}

\* dataset.pageIndex of what a click in the preview hits: that of a
\* thumbnail, or none
ClickTargets == {""} \cup {String(i) : i \in 0..(ViewerPages - 1)}

\* new Viewer({ isWritable, ... }) and render()
ViewerConstructed(w) ==
    /\ viewerIsWritable = w
    /\ pageIndex = 0
    /\ pageNumberInput = String(0 + 1)
    /\ isShowPreview = FALSE
    /\ newPageIndex = <<>>

ViewerInit == ViewerConstructed(FALSE)

\* a step of the viewer
ViewerStep(name) ==
    /\ Record(Op(name, 0), Null)
    /\ UNCHANGED <<slideVars, magixVars, pageVars>>

\* setWritable(isWritable)
SetWritable(w) ==
    /\ viewerIsWritable' = w
    /\ newPageIndex' = <<>>
    /\ UNCHANGED <<pageIndex, pageNumberInput, isShowPreview>>
    /\ ViewerStep("setWritable")

\* setPageIndex(pageIndex)
SetPageIndex(i) ==
    /\ pageIndex' = i
    /\ pageNumberInput' = String(i + 1)
    /\ newPageIndex' = <<>>
    /\ UNCHANGED <<viewerIsWritable, isShowPreview>>
    /\ ViewerStep("setPageIndex")

\* a click in the preview on target
ClickPreview(target) ==
    /\ newPageIndex' = IF ~viewerIsWritable THEN <<>>
                       ELSE IF target # "" THEN <<Number(target)>>
                       ELSE <<>>
    /\ UNCHANGED <<viewerIsWritable, pageIndex, pageNumberInput, isShowPreview>>
    /\ ViewerStep("clickPreview")

\* a click on the preview mask
ClickPreviewMask ==
    /\ isShowPreview' = IF viewerIsWritable THEN FALSE ELSE isShowPreview
    /\ newPageIndex' = <<>>
    /\ UNCHANGED <<viewerIsWritable, pageIndex, pageNumberInput>>
    /\ ViewerStep("clickPreviewMask")

\* a click on the sidebar button
ClickSidebar ==
    /\ isShowPreview' = IF viewerIsWritable THEN ~isShowPreview ELSE isShowPreview
    /\ newPageIndex' = <<>>
    /\ UNCHANGED <<viewerIsWritable, pageIndex, pageNumberInput>>
    /\ ViewerStep("clickSidebar")

\* a click on the page-back button
ClickPageBack ==
    /\ newPageIndex' = IF ~viewerIsWritable THEN <<>> ELSE <<pageIndex - 1>>
    /\ UNCHANGED <<viewerIsWritable, pageIndex, pageNumberInput, isShowPreview>>
    /\ ViewerStep("clickPageBack")

\* a page-next button that does not look at isWritable
ClickPageNextAlways ==
    /\ newPageIndex' = <<pageIndex + 1>>
    /\ UNCHANGED <<viewerIsWritable, pageIndex, pageNumberInput, isShowPreview>>
    /\ ViewerStep("clickPageNext")

\* a click on the page-next button
ClickPageNext ==
    /\ newPageIndex' = IF ~viewerIsWritable THEN <<>> ELSE <<pageIndex + 1>>
    /\ UNCHANGED <<viewerIsWritable, pageIndex, pageNumberInput, isShowPreview>>
    /\ ViewerStep("clickPageNext")

\* "change" of the page number input, which holds text
ChangePageNumber(text) ==
    /\ pageNumberInput' = text
    /\ newPageIndex' = IF ~viewerIsWritable THEN <<>>
                       ELSE IF text # "" THEN <<Number(text) - 1>>
                       ELSE <<>>
    /\ UNCHANGED <<viewerIsWritable, pageIndex, isShowPreview>>
    /\ ViewerStep("changePageNumber")

(***************************************************************************)
(* Specifications                                                          *)
(***************************************************************************)
Init ==
    /\ deck \in Decks
    /\ \E initialState \in {Null} \cup Pages(deck), initialPage \in Pages(deck),
          count \in {0, deck} :
           Constructed(initialState, initialPage, count)
    /\ scenes \in SceneStates(deck)
    /\ scenePath = Null
    /\ lastOp = Op("constructor", 0)
    /\ rendered = Null
    /\ roomCalls = <<>>
    /\ called = <<>>
    /\ inTransition = FALSE
    /\ history = <<>>
    /\ recording = FALSE
    /\ isWritable = [o \in Observers |-> TRUE]
    /\ MagixInit
    /\ PageInit
    /\ ViewerInit

Next ==
    \/ SlideLoaded
    \/ PollReadyState
    \/ \E c \in Consumers : AwaitReady(c)
    \/ \E page \in PageInputs : JumpToPage(page)
    \/ RenderStart
    \/ RenderEnd
    \/ RenderError
    \/ SyncSceneWithSlide

Spec == Init /\ [][Next]_vars

(***************************************************************************)
(* Recorded runs of a deck of ten slides that starts on page 1: every      *)
(* operation of the controller, the renderer and the reconciler is logged  *)
(* in history.  The readiness poll does not take part in navigation and is *)
(* left out of these runs.                                                 *)
(***************************************************************************)
ScenarioDecks == {10}

ScenarioPages == {5, 9, 11}

ScenarioInit ==
    /\ deck \in ScenarioDecks
    /\ \E initialState \in {Null, 1} : Constructed(initialState, 1, 0)
    /\ scenes \in SceneStates(deck)
    /\ scenePath = Null
    /\ lastOp = Op("constructor", 0)
    /\ rendered = Null
    /\ roomCalls = <<>>
    /\ called = <<>>
    /\ inTransition = FALSE
    /\ history = <<>>
    /\ recording = TRUE
    /\ isWritable = [o \in Observers |-> TRUE]
    /\ MagixInit
    /\ PageInit
    /\ ViewerInit

ScenarioNext ==
    \/ SlideLoaded
    \/ \E page \in ScenarioPages : JumpToPage(page)
    \/ RenderStart
    \/ RenderEnd
    \/ RenderError
    \/ SyncSceneWithSlide

SpecScenario == ScenarioInit /\ [][ScenarioNext]_vars

(***************************************************************************)
(* The observers of one room exchanging magix events; the slide controller *)
(* of the model stays as constructed.                                      *)
(***************************************************************************)
MagixSpecInit ==
    /\ deck = 1
    /\ Constructed(Null, 1, 0)
    /\ scenes = <<>>
    /\ scenePath = Null
    /\ lastOp = Op("constructor", 0)
    /\ rendered = Null
    /\ roomCalls = <<>>
    /\ called = <<>>
    /\ inTransition = FALSE
    /\ history = <<>>
    /\ recording = FALSE
    /\ isWritable \in [Observers -> BOOLEAN]
    /\ MagixInit
    /\ PageInit
    /\ ViewerInit

MagixNext ==
    \/ \E o \in Observers, a \in PageApps : SendMagixMessage(o, a)
    \/ \E o \in Observers, a \in SlideApps : DispatchSyncEvent(o, a)
    \/ \E d \in network : DeliverMagixEvent(d)
    \/ \E o \in Observers : WritableChange(o)

SpecMagix == MagixSpecInit /\ [][MagixNext]_vars

(***************************************************************************)
(* Life cycle: the slide controller from its construction to destroy(),    *)
(* with the readiness poll and the renderer's events.                      *)
(***************************************************************************)
LifecycleInit ==
    /\ deck \in Decks
    /\ \E initialState \in {Null} \cup Pages(deck), initialPage \in Pages(deck),
          count \in {0, deck} :
           Constructed(initialState, initialPage, count)
    /\ scenes \in SceneStates(deck)
    /\ scenePath = Null
    /\ lastOp = Op("constructor", 0)
    /\ rendered = Null
    /\ roomCalls = <<>>
    /\ called = <<>>
    /\ inTransition = FALSE
    /\ history = <<>>
    /\ recording = FALSE
    /\ isWritable = [o \in Observers |-> TRUE]
    /\ MagixInit
    /\ PageInit
    /\ ViewerInit

LifecycleNext ==
    \/ SlideLoaded
    \/ PollReadyState
    \/ \E c \in Consumers : AwaitReady(c)
    \/ RenderStart
    \/ RenderEnd
    \/ RenderError
    \/ SyncSceneWithSlide
    \/ Destroy

SpecLifecycle == LifecycleInit /\ [][LifecycleNext]_vars

\* the same runs with a timer that fires: a setTimeout(pollReadyState, 500)
\* that is outstanding runs in the end.  Nothing makes the resource load.
SpecReadiness == SpecLifecycle /\ WF_vars(PollReadyState)

(***************************************************************************)
(* Transitions: the slide controller with a renderer that also plays the   *)
(* animation steps of the slide on show.  The readiness poll and the       *)
(* reconciler take no part in the transition callbacks and are left out.   *)
(***************************************************************************)
TransitionsInit ==
    /\ deck \in Decks
    /\ \E initialState \in {Null} \cup Pages(deck), initialPage \in Pages(deck),
          count \in {0, deck} :
           Constructed(initialState, initialPage, count)
    /\ scenes = <<>>
    /\ scenePath = Null
    /\ lastOp = Op("constructor", 0)
    /\ rendered = Null
    /\ roomCalls = <<>>
    /\ called = <<>>
    /\ inTransition = FALSE
    /\ history = <<>>
    /\ recording = FALSE
    /\ isWritable = [o \in Observers |-> TRUE]
    /\ MagixInit
    /\ PageInit
    /\ ViewerInit

TransitionsNext ==
    \/ SlideLoaded
    \/ \E page \in PageInputs : JumpToPage(page)
    \/ RenderStart
    \/ RenderEnd
    \/ RenderError
    \/ MainSeqStepStart
    \/ MainSeqStepEnd
    \/ ReceiveSyncEvent

SpecTransitions == TransitionsInit /\ [][TransitionsNext]_vars

(***************************************************************************)
(* Scenes and write permission: every observer holds or lacks write        *)
(* permission; the local one runs the slide and its reconciler, and each   *)
(* observer's EmbeddedPage app serves the "SetPage" messages of its page.  *)
(***************************************************************************)
ScenesInit ==
    /\ deck \in Decks
    /\ \E initialState \in {Null} \cup Pages(deck), initialPage \in Pages(deck),
          count \in {0, deck} :
           Constructed(initialState, initialPage, count)
    /\ scenes \in SceneStates(deck)
    /\ scenePath = Null
    /\ lastOp = Op("constructor", 0)
    /\ rendered = Null
    /\ roomCalls = <<>>
    /\ called = <<>>
    /\ inTransition = FALSE
    /\ history = <<>>
    /\ recording = FALSE
    /\ isWritable \in [Observers -> BOOLEAN]
    /\ MagixInit
    /\ PageInit
    /\ ViewerInit

ScenesNext ==
    \/ SlideLoaded
    \/ RenderStart
    \/ RenderEnd
    \/ SyncSceneWithSlide
    \/ \E o \in Observers, page \in PagePayloads : SetPage(o, page)

SpecScenes == ScenesInit /\ [][ScenesNext]_vars

(***************************************************************************)
(* The EmbeddedPage app and the messages of its page: every observer holds *)
(* or lacks write permission, and the page of each sends "SetState",       *)
(* "SetStore", "SetPage" and "SendMagixMessage".                           *)
(***************************************************************************)
StoreInit ==
    /\ deck = 1
    /\ Constructed(Null, 1, 0)
    /\ scenes = <<>>
    /\ scenePath = Null
    /\ lastOp = Op("constructor", 0)
    /\ rendered = Null
    /\ roomCalls = <<>>
    /\ called = <<>>
    /\ inTransition = FALSE
    /\ history = <<>>
    /\ recording = FALSE
    /\ isWritable \in [Observers -> BOOLEAN]
    /\ MagixInit
    /\ PageInit
    /\ ViewerInit

StoreNext ==
    \/ \E o \in Observers, payload \in StorePayloads : SetState(o, payload)
    \/ \E o \in Observers, payload \in StorePayloads : SetStore(o, payload)
    \/ \E o \in Observers, page \in PagePayloads : SetPage(o, page)
    \/ \E o \in Observers, a \in PageApps : SendMagixMessage(o, a)
    \/ DestroyPage

SpecStore == StoreInit /\ [][StoreNext]_vars

(***************************************************************************)
(* The docs Viewer under setWritable, setPageIndex and the user's events.  *)
(***************************************************************************)
ViewerSpecInit ==
    /\ deck = 1
    /\ Constructed(Null, 1, 0)
    /\ scenes = <<>>
    /\ scenePath = Null
    /\ lastOp = Op("constructor", 0)
    /\ rendered = Null
    /\ roomCalls = <<>>
    /\ called = <<>>
    /\ inTransition = FALSE
    /\ history = <<>>
    /\ recording = FALSE
    /\ isWritable = [o \in Observers |-> TRUE]
    /\ MagixInit
    /\ PageInit
    /\ \E w \in BOOLEAN : ViewerConstructed(w)

ViewerNext ==
    \/ \E w \in BOOLEAN : SetWritable(w)
    \/ \E i \in 0..(ViewerPages - 1) : SetPageIndex(i)
    \/ \E target \in ClickTargets : ClickPreview(target)
    \/ ClickPreviewMask
    \/ ClickSidebar
    \/ ClickPageBack
    \/ ClickPageNext
    \/ \E text \in InputTexts : ChangePageNumber(text)

SpecViewer == ViewerSpecInit /\ [][ViewerNext]_vars

(***************************************************************************)
(* Properties                                                              *)
(***************************************************************************)
Min(a, b) == IF a < b THEN a ELSE b
Last(s) == s[Len(s)]
Max(a, b) == IF a > b THEN a ELSE b

\* the target of a request for page p, as the design states it
Clamped(p) == Max(1, Min(p, slideCount))

\* a render asked for by jumpToPage is under way: requested, not yet ended or failed
InFlight == targetingPage # NoTarget /\ phase # "idle"

JumpStep == lastOp'.op = "jumpToPage"

\* C1: when ready, the page a jumpToPage(p) hands to the renderer is
\* max(1, min(p, slideCount)), and no render call of jumpToPage carries a page
\* outside 1..slideCount.
C1_RenderIsClamped ==
    /\ (lastOp.op = "jumpToPage" /\ rendered # Null) =>
           /\ slideCount > 0
           /\ rendered = Clamped(lastOp.arg)
    /\ \A i \in 1..Len(renderCalls) : renderCalls[i] \in 1..slideCount

C1_Witness ==
    /\ lastOp.op = "jumpToPage"
    /\ lastOp.arg > slideCount
    /\ slideCount > 1
    /\ rendered = slideCount

\* C2: while a render is in flight, a jumpToPage whose clamped argument is
\* targetingPage issues no render call and leaves targetingPage alone.
C2_DuplicateSuppressed ==
    [][(InFlight /\ JumpStep /\ Clamped(lastOp'.arg) = targetingPage)
          => /\ rendered' = Null
             /\ renderCalls' = renderCalls
             /\ targetingPage' = targetingPage
             /\ pending' = pending
             /\ phase' = phase]_vars

C2_Witness ==
    /\ InFlight
    /\ lastOp.op = "jumpToPage"
    /\ Clamped(lastOp.arg) = targetingPage
    /\ lastOp.arg # targetingPage
    /\ rendered = Null

C4_OneRenderInFlight == flightCalls <= 1

\* the run of the scenario: the deck of 10 loads, jumpToPage(5), renderStart,
\* jumpToPage(9) before renderEnd, renderEnd, syncSceneWithSlide
ScenarioRun ==
    /\ slideCount = 10
    /\ Len(history) = 6
    /\ history[1].op = "loaded"
    /\ history[2] = Op("jumpToPage", 5)
    /\ history[3].op = "renderStart"
    /\ history[4] = Op("jumpToPage", 9)
    /\ history[5].op = "renderEnd"
    /\ history[6].op = "syncSceneWithSlide"

C6_NoEcho ==
    \A o \in Observers :
        /\ \A a \in PageApps : \A e \in posted[o][a] : e.authorId # o
        /\ \A a \in SlideApps : \A e \in synced[o][a] : e.authorId # o

\* an event came back to its author's listeners and reached another observer's page
C6_Witness ==
    \E d \in delivered :
        /\ d.to = d.e.authorId
        /\ \E o \in Observers, a \in PageApps : o # d.to /\ d.e \in posted[o][a]

\* C7: with no scene entry under baseScenePath and a current page c, one run
\* of syncSceneWithSlide leaves exactly the entries "1".."slideCount", each
\* once, and makes baseScenePath/c the active scene path.
C7_SceneRepair ==
    (lastOp = Op("syncSceneWithSlide", 0) /\ currentSlideIndex # Null) =>
        /\ Len(scenes) = slideCount
        /\ \A i \in 1..slideCount : scenes[i] = i
        /\ scenePath = currentSlideIndex

C7_Witness ==
    /\ lastOp = Op("syncSceneWithSlide", 0)
    /\ slideCount > 1
    /\ currentSlideIndex = slideCount
    /\ scenes = PageNames(slideCount)
    /\ scenePath = slideCount

\* C8: ready is resolved at most once, never while slideCount <= 0, and by
\* the first poll that finds slideCount > 0; from then on no timer is armed,
\* and every consumer that has awaited ready has seen the controller.
C8_ReadyOnce ==
    /\ resolveCount <= 1
    /\ resolveCount = 1 => (slideCount > 0 /\ ~timerPending /\ readyValue = "controller")
    /\ resolveCount = 0 => (timerPending /\ readyValue = "pending")
    /\ lastOp.op = "pollReadyState" => (resolveCount = 1 <=> slideCount > 0)
    /\ \A c \in Consumers :
           /\ observed[c] \in {"pending", "controller"}
           /\ observed[c] # "pending" => resolveCount = 1

C8_Witness ==
    /\ resolveCount = 1
    /\ ~timerPending
    /\ \A c \in Consumers : observed[c] = "controller"

\* C9, as claimed: a jumpToPage made before ready has resolved issues no
\* render call and does not change targetingPage.
C9_NoOpBeforeResolved ==
    (lastOp.op = "jumpToPage" /\ resolveCount = 0) =>
        (rendered = Null /\ targetingPage = NoTarget)

\* C9, amended: a jumpToPage made before ready has resolved is a no-op while
\* slideCount <= 0; once slideCount is positive it is carried out as after
\* resolution, also when the poll has not resolved ready yet.
C9_NoOpUntilPageCount ==
    [][(JumpStep /\ resolveCount = 0) =>
          IF slideCount <= 0 \/ Clamped(lastOp'.arg) = targetingPage
          THEN /\ rendered' = Null
               /\ targetingPage' = targetingPage
               /\ renderCalls' = renderCalls
          ELSE /\ rendered' = Clamped(lastOp'.arg)
               /\ targetingPage' = Clamped(lastOp'.arg)
               /\ renderCalls' = Append(renderCalls, Clamped(lastOp'.arg))]_vars

\* the page count is positive, the poll has not run, and jumpToPage rendered
C9_Witness ==
    /\ lastOp.op = "jumpToPage"
    /\ resolveCount = 0
    /\ timerPending
    /\ slideCount > 0
    /\ rendered # Null
    /\ targetingPage = rendered

\* C10: while slideCount <= 0 a jumpToPage issues no render call, leaves
\* targetingPage and the renderer alone and queues nothing: no later step
\* other than a jumpToPage issues a render call for it.
C10_IgnoredWhileNotReady ==
    [][/\ (JumpStep /\ slideCount <= 0)
          => /\ rendered' = Null
             /\ targetingPage' = targetingPage
             /\ callVars' = callVars
             /\ rendererVars' = rendererVars
       /\ ~JumpStep
          => /\ rendered' = Null
             /\ targetingPage' = targetingPage
             /\ callVars' = callVars
       /\ lastOp'.op \in {"loaded", "pollReadyState"}
          => rendererVars' = rendererVars]_vars

C10_Witness ==
    /\ lastOp.op = "jumpToPage"
    /\ slideCount = 0
    /\ rendered = Null
    /\ targetingPage = NoTarget
    /\ renderCalls = <<>>

\* C11: when the renderer reports no current page, syncSceneWithSlide is a
\* no-op: it calls none of removeScenes, putScenes and setScenePath, and the
\* scenes and the active scene path stay as they were.
C11_NoPageNoSync ==
    [][(lastOp'.op = "syncSceneWithSlide" /\ currentSlideIndex = Null) =>
          /\ roomCalls' = <<>>
          /\ scenes' = scenes
          /\ scenePath' = scenePath]_vars

\* the reconciler ran on a loaded deck with stale entries and no current page
C11_Witness ==
    /\ lastOp.op = "syncSceneWithSlide"
    /\ lastOp.arg > 0
    /\ currentSlideIndex = Null
    /\ slideCount > 0
    /\ roomCalls = <<>>
    /\ scenes # <<>>
    /\ scenePath = Null

\* the calls of the last operation that write shared state
SharedWrites ==
    SelectSeq(roomCalls, LAMBDA c : c.call \in {"removeScenes", "putScenes",
                                                "setScenePath", "updateAttributes"})

\* C12: a client without write permission writes no shared state while it
\* reconciles page and scene: neither syncSceneWithSlide nor setPage, run by
\* a read-only observer, removes or creates scenes, sets the scene path or
\* updates the page attribute.
C12_ReadOnlyNeverWrites ==
    /\ (lastOp.op = "syncSceneWithSlide" /\ ~isWritable[LocalObserver])
           => SharedWrites = <<>>
    /\ (lastOp.op = "setPage" /\ ~isWritable[lastOp.arg])
           => SharedWrites = <<>>

\* C13: a renderError ends the transition: onTransitionEnd is invoked for
\* it and the renderer is idle again, no render call is issued for it, the
\* current page stays where the renderer left it, and the next jumpToPage is
\* carried out as any other: suppressed when its clamped page is
\* targetingPage, rendered otherwise.
C13_ErrorEndsTransition ==
    [][/\ lastOp'.op = "renderError"
          => /\ called' = <<"onTransitionEnd">>
             /\ phase' = "idle"
             /\ pending' = Null
             /\ rendered' = Null
             /\ renderCalls' = renderCalls
             /\ targetingPage' = targetingPage
             /\ currentSlideIndex' = currentSlideIndex
       /\ (JumpStep /\ lastOp.op = "renderError" /\ slideCount > 0)
          => IF Clamped(lastOp'.arg) = targetingPage
             THEN rendered' = Null /\ phase' = "idle"
             ELSE /\ rendered' = Clamped(lastOp'.arg)
                  /\ targetingPage' = Clamped(lastOp'.arg)
                  /\ pending' = Clamped(lastOp'.arg)
                  /\ phase' = "requested"]_vars

\* the render of a jumpToPage failed after it had started
C13_Witness ==
    /\ lastOp.op = "renderError"
    /\ called = <<"onTransitionEnd">>
    /\ targetingPage # NoTarget
    /\ currentSlideIndex # targetingPage
    /\ phase = "idle"
    /\ pending = Null

\* targetingPage is the latest request: unset or a page of the deck, the page
\* of the last render call of jumpToPage, and what the renderer is working on
LatestTarget ==
    /\ targetingPage = NoTarget \/ targetingPage \in 1..slideCount
    /\ renderCalls = <<>> <=> targetingPage = NoTarget
    /\ renderCalls # <<>> => targetingPage = Last(renderCalls)
    /\ (pending # Null /\ targetingPage # NoTarget) => pending = targetingPage
    /\ (lastOp.op = "jumpToPage" /\ slideCount > 0) => targetingPage = Clamped(lastOp.arg)

C15_TransitionsOrdered ==
    [][(lastOp'.op \in {"renderStart", "mainSeqStepStart"}
           /\ called' = <<"onTransitionStart">>)
          => ~inTransition]_vars

\* every setScenePath among the calls names an entry that exists when the
\* call is made, the calls before it having run on the entries given
EntryWhenSet(calls, entries) ==
    \A i \in 1..Len(calls) :
        calls[i].call = "setScenePath" =>
            calls[i].arg[1] \in Range(RoomAfter(SubSeq(calls, 1, i - 1), entries, Null)[1])

\* C16: the active scene is never set to a path without an entry.  When
\* syncSceneWithSlide, for a current page within 1..slideCount, or setPage
\* calls setScenePath, the entry of that page exists at that moment, whatever
\* the entries were before; afterwards the active scene is among the entries.
C16_SceneExistsWhenSet ==
    [][/\ (lastOp'.op = "syncSceneWithSlide" /\ currentSlideIndex \in 1..slideCount)
          => /\ EntryWhenSet(roomCalls', scenes)
             /\ scenePath' = currentSlideIndex
             /\ scenePath' \in Range(scenes')
       /\ (lastOp'.op = "setPage" /\ roomCalls' # <<>>)
          => /\ EntryWhenSet(roomCalls', pageScenes)
             /\ pageScenePath' = Last(roomCalls').arg[1]
             /\ pageScenePath' \in Range(pageScenes')]_vars

\* the reconciler found stale entries without the current page, and the
\* EmbeddedPage app switched to a scene it had to create
C16_Witness ==
    /\ lastOp.op = "syncSceneWithSlide"
    /\ lastOp.arg > 0
    /\ Len(roomCalls) = 3
    /\ scenePath = currentSlideIndex
    /\ scenePath \in Range(scenes)
    /\ pageScenes = <<"a", "b">>
    /\ pageScenePath = "b"

\* the calls of the last operation that remove or create scenes
SceneEdits ==
    SelectSeq(roomCalls, LAMBDA c : c.call \in {"removeScenes", "putScenes"})

\* C17: scene creation is idempotent.  When the entry of the page exists,
\* syncSceneWithSlide and setPage call neither removeScenes nor putScenes and
\* only set the active scene path, leaving the entries as they are; and a
\* second run of syncSceneWithSlide right after the first changes neither
\* the entries nor the active scene path.
C17_CreationIdempotent ==
    [][/\ (lastOp'.op = "syncSceneWithSlide" /\ currentSlideIndex # Null
              /\ currentSlideIndex \in Range(scenes))
          => /\ roomCalls' = <<Call("setScenePath", <<currentSlideIndex>>)>>
             /\ scenes' = scenes
             /\ scenePath' = currentSlideIndex
       /\ (lastOp'.op = "setPage" /\ roomCalls' # <<>>
              /\ Last(roomCalls').arg[1] \in Range(pageScenes))
          => /\ SceneEdits' = <<>>
             /\ roomCalls'[1] = Call("setScenePath", <<Last(roomCalls').arg[1]>>)
             /\ pageScenes' = pageScenes
       /\ (lastOp'.op = "syncSceneWithSlide" /\ lastOp.op = "syncSceneWithSlide")
          => /\ scenes' = scenes
             /\ scenePath' = scenePath]_vars

\* the reconciler ran on the full set of entries, with another scene active
\* before, after the EmbeddedPage app had switched back to a scene it has
C17_Witness ==
    /\ lastOp.op = "syncSceneWithSlide"
    /\ lastOp.arg = slideCount
    /\ slideCount > 1
    /\ roomCalls = <<Call("setScenePath", <<currentSlideIndex>>)>>
    /\ scenes = PageNames(slideCount)
    /\ scenePath = currentSlideIndex
    /\ pageScenes = <<"a", "b">>
    /\ pageScenePath = "a"

\* C18: all-or-nothing repair.  When the entry of the current page is
\* missing, syncSceneWithSlide calls removeScenes, then putScenes with the
\* full list "1".."slideCount" in ascending order, then setScenePath;
\* whatever entries were there before, afterwards they are exactly
\* 1..slideCount.
C18_FullRepair ==
    [][(lastOp'.op = "syncSceneWithSlide" /\ currentSlideIndex # Null
           /\ currentSlideIndex \notin Range(scenes))
          => /\ Len(roomCalls') = 3
             /\ roomCalls'[1].call = "removeScenes"
             /\ roomCalls'[2] = Call("putScenes", [i \in 1..slideCount |-> i])
             /\ roomCalls'[3] = Call("setScenePath", <<currentSlideIndex>>)
             /\ scenes' = [i \in 1..slideCount |-> i]]_vars

\* the repair replaced a stale entry of a page the deck does not have
C18_Witness ==
    /\ lastOp = Op("syncSceneWithSlide", 1)
    /\ slideCount > 1
    /\ currentSlideIndex = slideCount
    /\ roomCalls[1].call = "removeScenes"
    /\ roomCalls[2].call = "putScenes"
    /\ scenes = PageNames(slideCount)
    /\ slideCount + 1 \notin Range(scenes)

\* C19: channel isolation.  With two app instances in the room, an event
\* dispatched by one instance on its channel "channel-" + appId is never
\* forwarded by the other: whatever an instance forwards carries its own
\* channel and was dispatched by an instance with its appId.
C19_ChannelIsolation ==
    \A o \in Observers :
        /\ \A a \in PageApps : \A e \in posted[o][a] :
               e.app = a /\ e.event = <<"channel", a>>
        /\ \A a \in SlideApps : \A e \in synced[o][a] :
               e.app = a /\ e.event = <<"channel", a>>

\* an observer has received events of both instances from another observer,
\* and each instance has forwarded its own
C19_Witness ==
    \E o \in Observers :
        /\ \E d \in delivered : d.to = o /\ d.e.authorId # o /\ d.e.app = "slide-1"
        /\ \E d \in delivered : d.to = o /\ d.e.authorId # o /\ d.e.app = "page-1"
        /\ \E e \in posted[o]["page-1"] : e.app = "page-1"
        /\ \E e \in synced[o]["slide-1"] : e.app = "slide-1"

\* C20: after destroy nothing the controller registered survives: no timer
\* of the readiness poll is pending, also when destroy comes before
\* readiness, and no operation of the controller runs any more.
C20_NothingSurvivesDestroy ==
    destroyed => (~timerPending /\ lastOp.op = "destroy")

\* C21: readiness liveness.  Once the page count is positive (it stays so),
\* a timer that fires leads to ready being resolved and no timer left; as
\* long as the page count is not positive, ready is not resolved and the
\* poll keeps its timer armed.
C21_ReadyInTheEnd ==
    /\ (slideCount > 0) ~> (resolveCount = 1 /\ readyValue = "controller" /\ ~timerPending)
    /\ [](slideCount <= 0 => (resolveCount = 0 /\ readyValue = "pending" /\ timerPending))
    /\ [][slideCount > 0 => slideCount' = slideCount]_vars

\* the timer, not the constructor, found the page count positive and resolved
C21_Witness ==
    /\ lastOp.op = "pollReadyState"
    /\ slideCount > 0
    /\ resolveCount = 1
    /\ readyValue = "controller"
    /\ ~timerPending

\* C22: targetingPage is written by jumpToPage only: it is -1 after the
\* constructor and its initial render, and no renderer event and no
\* receiveSyncEvent changes it.  So the duplicate test does not depend on the
\* renderer: once jumpToPage has rendered t, a jumpToPage whose clamped
\* page is t issues no render call, whether the render is under way, has
\* ended or has failed, and whatever page is on show.
C22_TargetOnlyByJump ==
    /\ targetingPage = NoTarget
    /\ [][/\ ~JumpStep => targetingPage' = targetingPage
          /\ (JumpStep /\ slideCount > 0 /\ targetingPage # NoTarget
                 /\ Clamped(lastOp'.arg) = targetingPage)
             => /\ rendered' = Null
                /\ renderCalls' = renderCalls
                /\ targetingPage' = targetingPage
                /\ rendererVars' = rendererVars]_vars

\* the render of t has failed or the renderer has moved on, another page is
\* on show, and jumpToPage for t was suppressed all the same
C22_Witness ==
    /\ lastOp.op = "jumpToPage"
    /\ slideCount > 1
    /\ targetingPage # NoTarget
    /\ Clamped(lastOp.arg) = targetingPage
    /\ rendered = Null
    /\ phase = "idle"
    /\ currentSlideIndex # Null
    /\ currentSlideIndex # targetingPage

\* C23: no message of the embedded page makes the EmbeddedPage app write
\* shared state while context.isWritable is false: "SetState", "SetStore"
\* and "SetPage" from a read-only observer call neither updateAttributes nor
\* putScenes nor setScenePath, and no magix event has a read-only author.
C23_NoWriteWhileReadOnly ==
    /\ (lastOp.op \in {"setState", "setStore", "setPage"} /\ ~isWritable[lastOp.arg])
           => SharedWrites = <<>>
    /\ \A d \in network : isWritable[d.e.authorId]

UserEvents == {"clickPreview", "clickPageBack", "clickPageNext", "changePageNumber"}

\* C24: however setWritable and the user's events interleave, a thumbnail
\* click, page-back, page-next or page-number change invokes onNewPageIndex
\* only if the viewer is writable when the event happens; no other step of
\* the viewer invokes it.
C24_NavigationOnlyWhenWritable ==
    [][newPageIndex' # <<>> => (viewerIsWritable /\ lastOp'.op \in UserEvents)]_vars

\* page-next on a viewer that was made read-only and writable again
C24_Witness ==
    /\ lastOp.op = "clickPageNext"
    /\ viewerIsWritable
    /\ pageIndex = 1
    /\ newPageIndex = <<2>>
    /\ isShowPreview

====
